---- MODULE Spec2Model ----
(***************************************************************************)
(* Search-terms analyser (src/index.tsx): the analyze button's handler,    *)
(* the business-context call, the file read and the streaming loop that    *)
(* decodes newline-delimited JSON into rows of the results table.          *)
(*                                                                         *)
(* Text is a sequence of one-character strings.  The characters are        *)
(*   "{" "}"   the braces that wrap a JSON object line                     *)
(*   "R" "S"   the members  "term":"a","category":"Positive"  and          *)
(*             "term":"b","category":"Negative"                            *)
(*   "T"       the member   "term":"a"            (no category)            *)
(*   "E"       the members  "term":"","category":"Positive" (empty term)   *)
(*   "x"       a character that is no JSON                                 *)
(*   " "       a blank, and "\n" the newline                               *)
(***************************************************************************)
EXTENDS Integers, Sequences, FiniteSets, TLC

VARIABLES selectedFile, ui, run, hist

vars == <<selectedFile, ui, run, hist>>

\* ------------------------------------------------------------------ bounds

\* Invocations of handleAnalyzeClick that can be alive at once.
MaxRuns == 2
\* Lines in one streamed response.
MaxLines == 2

Runs == 1..MaxRuns

\* ------------------------------------------------------------- characters

NL == "\n"
SP == " "
LBrace == "{"
RBrace == "}"
Undefined == "<undefined>"

IsWhitespace(c) == c \in {SP, NL}

\* ---------------------------------------------------------------- messages

MsgNoFile == "Please select a CSV file first."
MsgConfig == "Please provide a Website URL or a manual Targeting Location."
MsgNoLocation == "Could not determine a location. Please enter one manually."
MsgReadFailed == "Failed to read the selected file."
MsgAnalysisFailed == "Analysis failed: "

\* ------------------------------------------------------- string primitives

\* String.prototype.trim
RECURSIVE TrimStart(_)
TrimStart(s) ==
  IF s # <<>> /\ IsWhitespace(Head(s)) THEN TrimStart(Tail(s)) ELSE s

RECURSIVE TrimEnd(_)
TrimEnd(s) ==
  IF s # <<>> /\ IsWhitespace(s[Len(s)])
    THEN TrimEnd(SubSeq(s, 1, Len(s) - 1))
    ELSE s

Trim(s) == TrimEnd(TrimStart(s))

StartsWith(s, c) == Len(s) > 0 /\ s[1] = c

EndsWith(s, c) == Len(s) > 0 /\ s[Len(s)] = c

\* A faulty variant of IndexOfNewline: lastIndexOf instead of indexOf.
LastIndexOfNewline(s) ==
  IF \E i \in 1..Len(s) : s[i] = NL
    THEN CHOOSE i \in 1..Len(s) :
           s[i] = NL /\ \A j \in (i + 1)..Len(s) : s[j] # NL
    ELSE 0

\* buffer.indexOf('\n'), 1-based; 0 stands for JavaScript's -1.
IndexOfNewline(s) ==
  IF \E i \in 1..Len(s) : s[i] = NL
    THEN CHOOSE i \in 1..Len(s) :
           s[i] = NL /\ \A j \in 1..(i - 1) : s[j] # NL
    ELSE 0

\* -------------------------------------------------------------- JSON.parse

MemberObject(m) ==
  CASE m = "R" -> [term |-> "a", category |-> "Positive"]
    [] m = "S" -> [term |-> "b", category |-> "Negative"]
    [] m = "T" -> [term |-> "a", category |-> Undefined]
    [] m = "E" -> [term |-> "", category |-> "Positive"]

Members == {"R", "S", "T", "E"}

EmptyObject == [term |-> Undefined, category |-> Undefined]

\* JSON.parse on a trimmed line: an object, or a SyntaxError (ok = FALSE).
ParseJSON(s) ==
  IF s = <<LBrace, RBrace>>
    THEN [ok |-> TRUE, value |-> EmptyObject]
    ELSE IF Len(s) = 3 /\ s[1] = LBrace /\ s[3] = RBrace /\ s[2] \in Members
      THEN [ok |-> TRUE, value |-> MemberObject(s[2])]
      ELSE [ok |-> FALSE, value |-> EmptyObject]

\* JavaScript truthiness of a string-or-undefined field.
Truthy(v) == v \notin {"", Undefined}

\* ------------------------------------------------------- tryParseAndDisplay

SanitizedLine(line) ==
  IF StartsWith(line, LBrace) /\ EndsWith(line, RBrace) THEN line ELSE <<>>

\* A faulty variant of ItemAccepted: the category check is forgotten.
ItemAcceptedTermOnly(item) == Truthy(item.term)

ItemAccepted(item) == Truthy(item.term) /\ Truthy(item.category)

\* A faulty variant of TryParseAndDisplay: no try/catch around JSON.parse.
TryParseNoCatch(line) ==
  LET sanitizedLine == SanitizedLine(line)
      parsed == ParseJSON(sanitizedLine)
  IN  IF sanitizedLine = <<>>
        THEN [items |-> <<>>, raised |-> FALSE]
        ELSE IF ~parsed.ok
          THEN [items |-> <<>>, raised |-> TRUE]
          ELSE IF ItemAccepted(parsed.value)
            THEN [items |-> <<parsed.value>>, raised |-> FALSE]
            ELSE [items |-> <<>>, raised |-> FALSE]

\* The items handed to addResultToTable for one line, and whether an exception
\* leaves the function (the catch at line 207 swallows JSON.parse's).
TryParseAndDisplay(line) ==
  LET sanitizedLine == SanitizedLine(line)
      parsed == ParseJSON(sanitizedLine)
  IN  IF sanitizedLine = <<>>
        THEN [items |-> <<>>, raised |-> FALSE]
        ELSE IF ~parsed.ok
          THEN [items |-> <<>>, raised |-> FALSE]
          ELSE IF ItemAccepted(parsed.value)
            THEN [items |-> <<parsed.value>>, raised |-> FALSE]
            ELSE [items |-> <<>>, raised |-> FALSE]

\* --------------------------------------------------------------- the UI

\* setLoadingState
SetLoadingState(u, isLoading) ==
  [u EXCEPT !.disabled = isLoading, !.spinner = isLoading]

\* clearResultsAndErrors
ClearResultsAndErrors(u) ==
  [u EXCEPT !.resultsVisible = FALSE, !.tbody = <<>>,
            !.errorVisible = FALSE, !.errorText = ""]

\* displayError
DisplayError(u, message) ==
  [u EXCEPT !.errorText = message, !.errorVisible = TRUE]

\* initializeResultDisplay
InitializeResultDisplay(u) ==
  [u EXCEPT !.tbody = <<>>, !.resultsVisible = TRUE]

\* addResultToTable: one row per item; the row remembers the line it came from.
AddResultToTable(u, item, line) ==
  [u EXCEPT !.tbody =
     Append(@, [term |-> item.term, category |-> item.category, line |-> line])]

\* ------------------------------------------------------ the streaming loop

\* A faulty variant of Accumulate: the buffer is overwritten by each chunk.
AccumulateOverwrite(buffer, chunk) == chunk

\* buffer += chunk.text
Accumulate(buffer, chunk) == buffer \o chunk

\* The while loop over buffer.indexOf('\n'): the buffer that is left, the
\* non-empty trimmed lines handed to tryParseAndDisplay (each with its number in
\* the stream), and the number of lines taken off the buffer so far.
RECURSIVE Drain(_, _)
Drain(buffer, n) ==
  LET newlineIndex == IndexOfNewline(buffer)
  IN  IF newlineIndex = 0
        THEN [buffer |-> buffer, lines |-> <<>>, n |-> n]
        ELSE LET line == Trim(SubSeq(buffer, 1, newlineIndex - 1))
                 rest == Drain(SubSeq(buffer, newlineIndex + 1, Len(buffer)), n + 1)
             IN  [buffer |-> rest.buffer,
                  lines |-> (IF line # <<>>
                               THEN <<[lineNo |-> n + 1, line |-> line]>>
                               ELSE <<>>) \o rest.lines,
                  n |-> rest.n]

\* A faulty variant of Remainder: the buffer is not flushed at the end of the stream.
RemainderDropped(buffer, n) == <<>>

\* After the last chunk: the trimmed remainder, if it is not empty.
Remainder(buffer, n) ==
  IF Trim(buffer) # <<>>
    THEN <<[lineNo |-> n + 1, line |-> Trim(buffer)]>>
    ELSE <<>>

\* tryParseAndDisplay on each line in turn, up to the first that raises: the
\* rows added to the table and whether an exception reached the loop.
RECURSIVE DisplayLines(_)
DisplayLines(lines) ==
  IF lines = <<>>
    THEN [rows |-> <<>>, raised |-> FALSE]
    ELSE LET l == Head(lines)
             t == TryParseAndDisplay(l.line)
             here == [k \in 1..Len(t.items) |->
                        [lineNo |-> l.lineNo, line |-> l.line, item |-> t.items[k]]]
         IN  IF t.raised
               THEN [rows |-> here, raised |-> TRUE]
               ELSE LET rest == DisplayLines(Tail(lines))
                    IN  [rows |-> here \o rest.rows, raised |-> rest.raised]

RECURSIVE AddRows(_, _)
AddRows(u, rows) ==
  IF rows = <<>>
    THEN u
    ELSE AddRows(AddResultToTable(u, Head(rows).item, Head(rows).line), Tail(rows))

\* ------------------------------------------------------------ inputs

Urls == {"", "https://shop.example"}
Locations == {"", "San Diego, CA"}
InferredLocations == {"", "Austin, TX"}

ValidLine == <<LBrace, "R", RBrace>>
PaddedLine == <<SP, LBrace, "S", RBrace, SP>>
NoCategoryLine == <<LBrace, "T", RBrace>>
EmptyTermLine == <<LBrace, "E", RBrace>>
UnclosedLine == <<LBrace, "R">>
BadJsonLine == <<LBrace, "x", RBrace>>

\* The lines a response is made of, under the one-run-at-a-time specification:
\* two records, one of them padded with blanks, a record without category, one
\* with an empty term, an object cut short, braces around no JSON, an empty line.
AllLines ==
  {ValidLine, PaddedLine, NoCategoryLine, EmptyTermLine, UnclosedLine,
   BadJsonLine, <<>>}

RECURSIVE Join(_)
Join(ls) ==
  IF Len(ls) = 0 THEN <<>>
  ELSE IF Len(ls) = 1 THEN ls[1]
  ELSE ls[1] \o <<NL>> \o Join(Tail(ls))

\* The complete texts a stream may deliver: up to MaxLines lines, the last one
\* with or without its newline.
Texts(L) ==
  LET seqs == UNION {[1..k -> L] : k \in 1..MaxLines}
  IN  {Join(ls) : ls \in seqs} \cup {Join(ls) \o <<NL>> : ls \in seqs}

\* The response under the whole-application specification: a record on a line.
AppTexts == {ValidLine \o <<NL>>}

\* ------------------------------------------------------------ the state

IdleRun ==
  [pc |-> "idle", websiteUrl |-> "", manualLocation |-> "", location |-> "",
   pending |-> <<>>, buffer |-> <<>>]

\* What is recorded about a run: the text received, the rows it handed to
\* addResultToTable, the lines a chunk boundary fell inside, the number of chunk
\* boundaries that fell right after a newline, the lines taken off the buffer,
\* the errors it displayed, the API calls it issued, how it ended.
NewHist ==
  [received |-> <<>>, emitted |-> <<>>, splitLines |-> {}, alignedCuts |-> 0,
   lineNo |-> 0,
   errs |-> 0, genCalls |-> 0, streamCalls |-> 0, outcome |-> "none"]

InFlight(r) == run[r].pc \in {"context", "reading", "opening", "streaming"}

FreeSlots == {r \in Runs : ~InFlight(r)}

FreeSlot == CHOOSE r \in FreeSlots : \A q \in FreeSlots : r <= q

Init ==
  /\ selectedFile = FALSE
  /\ ui \in {[disabled |-> d, spinner |-> FALSE, errorText |-> "",
              errorVisible |-> FALSE, tbody |-> <<>>, resultsVisible |-> FALSE] :
               d \in BOOLEAN}
  /\ run = [r \in Runs |-> IdleRun]
  /\ hist = [r \in Runs |-> NewHist]

\* ------------------------------------------------------------ handlers

\* handleFileSelect: file is TRUE when the dialog returns a file.
HandleFileSelect(file) ==
  /\ selectedFile' = file
  /\ ui' = [ui EXCEPT !.disabled = ~file]
  /\ UNCHANGED <<run, hist>>

\* A finished invocation: its locals are gone.
Finished == [IdleRun EXCEPT !.pc = "done"]

\* The catch blocks of handleAnalyzeClick and of reader.onload, with the
\* setLoadingState(false) that follows each.
Fail(u, rr, hh, message, outcome) ==
  [ui |-> SetLoadingState(DisplayError(u, message), FALSE),
   run |-> Finished,
   hist |-> [hh EXCEPT !.errs = @ + 1, !.outcome = outcome]]

\* A faulty variant of ConfigMissing: the second negation is lost.
ConfigMissingFlipped(websiteUrl, manualLocation) ==
  websiteUrl = "" /\ manualLocation # ""

ConfigMissing(websiteUrl, manualLocation) ==
  websiteUrl = "" /\ manualLocation = ""

\* A faulty variant of NeedsContext: the context call is skipped when a manual
\* location is given.
NeedsContextUnlessManual(websiteUrl, manualLocation) ==
  websiteUrl # "" /\ manualLocation = ""

\* if (websiteUrl) context = await getBusinessContext(websiteUrl)
NeedsContext(websiteUrl, manualLocation) == websiteUrl # ""

\* From the manual-location override to reader.readAsText(selectedFile).
\* readAsText(null) throws a TypeError, which the outer catch reports.
ReadStep(u, rr, hh, contextLocation) ==
  LET location == IF rr.manualLocation # "" THEN rr.manualLocation
                                               ELSE contextLocation
      r1 == [rr EXCEPT !.location = location]
  IN  IF location = ""
        THEN Fail(u, r1, hh, MsgNoLocation, "noLocation")
        ELSE IF ~selectedFile
          THEN Fail(u, r1, hh, MsgAnalysisFailed, "contextError")
          ELSE [ui |-> u, run |-> [r1 EXCEPT !.pc = "reading"], hist |-> hh]

\* handleAnalyzeClick up to its first await (or its return).  A disabled button
\* dispatches no click.
HandleAnalyzeClick(websiteUrl, manualLocation) ==
  /\ ~ui.disabled
  /\ UNCHANGED selectedFile
  /\ IF ~selectedFile
       THEN /\ ui' = DisplayError(ui, MsgNoFile)
            /\ UNCHANGED <<run, hist>>
       ELSE IF ConfigMissing(websiteUrl, manualLocation)
         THEN /\ ui' = DisplayError(ui, MsgConfig)
              /\ UNCHANGED <<run, hist>>
         ELSE /\ FreeSlots # {}
              /\ LET r == FreeSlot
                     u0 == InitializeResultDisplay(
                             ClearResultsAndErrors(SetLoadingState(ui, TRUE)))
                     rr == [IdleRun EXCEPT !.websiteUrl = websiteUrl,
                                           !.manualLocation = manualLocation]
                     s == ReadStep(u0, rr, NewHist, "")
                 IN  IF NeedsContext(websiteUrl, manualLocation)
                       THEN /\ ui' = u0
                            /\ run' = [run EXCEPT ![r] = [rr EXCEPT !.pc = "context"]]
                            /\ hist' = [hist EXCEPT ![r] =
                                          [NewHist EXCEPT !.genCalls = 1]]
                       ELSE /\ ui' = s.ui
                            /\ run' = [run EXCEPT ![r] = s.run]
                            /\ hist' = [hist EXCEPT ![r] = s.hist]

\* getBusinessContext resolves: parsed.location || ''.
ContextResolved(r, contextLocation) ==
  /\ run[r].pc = "context"
  /\ LET s == ReadStep(ui, run[r], hist[r], contextLocation)
     IN  /\ ui' = s.ui
         /\ run' = [run EXCEPT ![r] = s.run]
         /\ hist' = [hist EXCEPT ![r] = s.hist]
  /\ UNCHANGED selectedFile

\* getBusinessContext rejects (the API call or its JSON.parse throws).
ContextFailed(r) ==
  /\ run[r].pc = "context"
  /\ LET s == Fail(ui, run[r], hist[r], MsgAnalysisFailed, "contextError")
     IN  /\ ui' = s.ui
         /\ run' = [run EXCEPT ![r] = s.run]
         /\ hist' = [hist EXCEPT ![r] = s.hist]
  /\ UNCHANGED selectedFile

\* reader.onload up to await generateContentStream.
FileLoaded(r) ==
  /\ run[r].pc = "reading"
  /\ run' = [run EXCEPT ![r].pc = "opening"]
  /\ hist' = [hist EXCEPT ![r].streamCalls = @ + 1]
  /\ UNCHANGED <<selectedFile, ui>>

\* A faulty variant of FileReadFailed: setLoadingState(false) is forgotten.
FileReadFailedStaysLoading(r) ==
  /\ run[r].pc = "reading"
  /\ ui' = DisplayError(ui, MsgReadFailed)
  /\ run' = [run EXCEPT ![r] = Finished]
  /\ hist' = [hist EXCEPT ![r].errs = @ + 1, ![r].outcome = "readError"]
  /\ UNCHANGED selectedFile

\* reader.onerror
FileReadFailed(r) ==
  /\ run[r].pc = "reading"
  /\ ui' = SetLoadingState(DisplayError(ui, MsgReadFailed), FALSE)
  /\ run' = [run EXCEPT ![r] = Finished]
  /\ hist' = [hist EXCEPT ![r].errs = @ + 1, ![r].outcome = "readError"]
  /\ UNCHANGED selectedFile

\* generateContentStream resolves; the response it will deliver is text.
StreamOpened(r, text) ==
  /\ run[r].pc = "opening"
  /\ run' = [run EXCEPT ![r].pc = "streaming", ![r].pending = text,
                        ![r].buffer = <<>>]
  /\ UNCHANGED <<selectedFile, ui, hist>>

\* A faulty variant of StreamFailed: the catch block also empties the table.
StreamFailedClearsTable(r) ==
  /\ run[r].pc \in {"opening", "streaming"}
  /\ LET s == Fail(ClearResultsAndErrors(ui), run[r], hist[r],
                   MsgAnalysisFailed, "streamError")
     IN  /\ ui' = s.ui
         /\ run' = [run EXCEPT ![r] = s.run]
         /\ hist' = [hist EXCEPT ![r] = s.hist]
  /\ UNCHANGED selectedFile

\* generateContentStream rejects, or the stream throws at a read: the catch and
\* finally of reader.onload.
StreamFailed(r) ==
  /\ run[r].pc \in {"opening", "streaming"}
  /\ LET s == Fail(ui, run[r], hist[r], MsgAnalysisFailed, "streamError")
     IN  /\ ui' = s.ui
         /\ run' = [run EXCEPT ![r] = s.run]
         /\ hist' = [hist EXCEPT ![r] = s.hist]
  /\ UNCHANGED selectedFile

\* What the loop body or the flush does with the lines it found: the rows go to
\* the table; an exception ends the run through catch and finally.
Deliver(r, lines, buffer, pending, received, split, aligned, n, pcAfter) ==
  LET res == DisplayLines(lines)
      u1 == AddRows(ui, res.rows)
      r1 == [run[r] EXCEPT !.buffer = buffer, !.pending = pending]
      h1 == [hist[r] EXCEPT !.received = received, !.splitLines = split,
                            !.alignedCuts = aligned, !.lineNo = n,
                            !.emitted = @ \o res.rows]
      f == Fail(u1, r1, h1, MsgAnalysisFailed, "streamError")
  IN  IF res.raised
        THEN /\ ui' = f.ui
             /\ run' = [run EXCEPT ![r] = f.run]
             /\ hist' = [hist EXCEPT ![r] = f.hist]
        ELSE /\ ui' = IF pcAfter = "done" THEN SetLoadingState(u1, FALSE) ELSE u1
             /\ run' = [run EXCEPT ![r] = IF pcAfter = "done"
                                             THEN Finished
                                             ELSE [r1 EXCEPT !.pc = pcAfter]]
             /\ hist' = [hist EXCEPT ![r] =
                           [h1 EXCEPT !.outcome =
                              IF pcAfter = "done" THEN "ok" ELSE @]]

\* The chunk boundary before the next chunk falls inside a line when text has
\* arrived and its last character is not a newline.
NewlinesIn(s) == Cardinality({i \in 1..Len(s) : s[i] = NL})

SplitAt(received) ==
  IF received # <<>> /\ received[Len(received)] # NL
    THEN {NewlinesIn(received) + 1}
    ELSE {}

AlignedAt(received) ==
  IF received # <<>> /\ received[Len(received)] = NL THEN 1 ELSE 0

\* One iteration of for await: the next k characters arrive as a chunk.
StreamChunk(r, k) ==
  /\ run[r].pc = "streaming"
  /\ k \in 1..Len(run[r].pending)
  /\ LET chunk == SubSeq(run[r].pending, 1, k)
         d == Drain(Accumulate(run[r].buffer, chunk), hist[r].lineNo)
     IN  Deliver(r, d.lines, d.buffer,
                 SubSeq(run[r].pending, k + 1, Len(run[r].pending)),
                 hist[r].received \o chunk,
                 hist[r].splitLines \cup SplitAt(hist[r].received),
                 hist[r].alignedCuts + AlignedAt(hist[r].received),
                 d.n, "streaming")
  /\ UNCHANGED selectedFile

\* The stream ends: the flush of the buffer, then finally.
StreamEnded(r) ==
  /\ run[r].pc = "streaming"
  /\ run[r].pending = <<>>
  /\ Deliver(r, Remainder(run[r].buffer, hist[r].lineNo), run[r].buffer, <<>>,
             hist[r].received, hist[r].splitLines, hist[r].alignedCuts,
             hist[r].lineNo, "done")
  /\ UNCHANGED selectedFile

\* ------------------------------------------------------- specifications

FileSelect == \E file \in BOOLEAN : HandleFileSelect(file)
AnalyzeClick == \E u \in Urls, l \in Locations : HandleAnalyzeClick(u, l)
ContextReturns == \E r \in Runs, l \in InferredLocations : ContextResolved(r, l)
ContextThrows == \E r \in Runs : ContextFailed(r)
FileLoads == \E r \in Runs : FileLoaded(r)
FileReadFails == \E r \in Runs : FileReadFailed(r)
StreamFails == \E r \in Runs : StreamFailed(r)
ChunkArrives ==
  \E r \in Runs : \E k \in 1..Len(run[r].pending) : StreamChunk(r, k)
WholeResponseArrives == \E r \in Runs : StreamChunk(r, Len(run[r].pending))
StreamEnds == \E r \in Runs : StreamEnded(r)

\* What a run does once its awaited step completes or fails (the response in
\* one chunk).
Continue(r, T) ==
  \/ \E l \in InferredLocations : ContextResolved(r, l)
  \/ ContextFailed(r)
  \/ FileLoaded(r)
  \/ FileReadFailed(r)
  \/ \E text \in T : StreamOpened(r, text)
  \/ StreamFailed(r)
  \/ StreamChunk(r, Len(run[r].pending))
  \/ StreamEnded(r)

\* The whole application: any interleaving of user events and completions of
\* overlapping runs, each response arriving in one chunk.
Next ==
  \/ FileSelect
  \/ AnalyzeClick
  \/ ContextReturns
  \/ ContextThrows
  \/ FileLoads
  \/ FileReadFails
  \/ \E r \in Runs, text \in AppTexts : StreamOpened(r, text)
  \/ StreamFails
  \/ WholeResponseArrives
  \/ StreamEnds

Spec == Init /\ [][Next]_vars

\* Every awaited step eventually completes or fails.
LiveSpec == Spec /\ \A r \in Runs : WF_vars(Continue(r, AppTexts))

\* One run at a time (the user touches the file input only between runs), with
\* every response of Texts(AllLines) in every chunking.
NoRunInFlight == \A r \in Runs : ~InFlight(r)

NextSeq ==
  \/ NoRunInFlight /\ FileSelect
  \/ AnalyzeClick
  \/ ContextReturns
  \/ ContextThrows
  \/ FileLoads
  \/ FileReadFails
  \/ \E r \in Runs, text \in Texts(AllLines) : StreamOpened(r, text)
  \/ StreamFails
  \/ ChunkArrives
  \/ StreamEnds

SeqSpec == Init /\ [][NextSeq]_vars

\* ----------------------------------------------------- vocabulary of the claims

\* The segments of a text between its newlines; the last one is what follows the
\* last newline (empty when the text ends with a newline).
RECURSIVE Segments(_)
Segments(text) ==
  IF \A i \in 1..Len(text) : text[i] # NL
    THEN <<text>>
    ELSE LET i == CHOOSE k \in 1..Len(text) :
                    text[k] = NL /\ \A j \in 1..(k - 1) : text[j] # NL
         IN  <<SubSeq(text, 1, i - 1)>> \o Segments(SubSeq(text, i + 1, Len(text)))

\* A candidate line that is wrapped in braces, decodes, and has a term and a
\* category.
WellFormed(line) ==
  /\ StartsWith(line, LBrace)
  /\ EndsWith(line, RBrace)
  /\ ParseJSON(line).ok
  /\ ParseJSON(line).value.term \notin {"", Undefined}
  /\ ParseJSON(line).value.category \notin {"", Undefined}

\* A candidate line that is not blank and not well-formed.
Malformed(line) == Trim(line) # <<>> /\ ~WellFormed(Trim(line))

\* The lines of run r that have gone through the decode step: the
\* newline-terminated ones and, after a normal end, the remainder as well.
Decoded(r) ==
  IF hist[r].outcome = "ok"
    THEN Len(Segments(hist[r].received))
    ELSE NewlinesIn(hist[r].received)

LineOf(r, j) == Trim(Segments(hist[r].received)[j])

EmittedFor(r, j) == {k \in 1..Len(hist[r].emitted) : hist[r].emitted[k].lineNo = j}

Streamed(r) == run[r].pc = "streaming" \/ hist[r].outcome = "ok"

\* ------------------------------------------------------------------ claims

\* C1: every row of the results table, and every row a run handed to
\* addResultToTable, came from a candidate line of the received text that
\* starts with '{', ends with '}', decodes as JSON and has a non-empty term and
\* category; the row shows that line's term and category.
C1_OnlyWellFormedSurfaced ==
  /\ \A k \in 1..Len(ui.tbody) :
       /\ WellFormed(ui.tbody[k].line)
       /\ ui.tbody[k].term = ParseJSON(ui.tbody[k].line).value.term
       /\ ui.tbody[k].category = ParseJSON(ui.tbody[k].line).value.category
  /\ \A r \in Runs : \A k \in 1..Len(hist[r].emitted) :
       LET e == hist[r].emitted[k]
       IN  /\ e.lineNo \in 1..Len(Segments(hist[r].received))
           /\ e.line = LineOf(r, e.lineNo)
           /\ WellFormed(e.line)
           /\ e.item = ParseJSON(e.line).value

\* A row is in the table while the same response held a line that was dropped.
C1_Witness ==
  \E r \in Runs :
    /\ Len(ui.tbody) = 1
    /\ Len(hist[r].emitted) = 1
    /\ \E j \in 1..Decoded(r) : Malformed(Segments(hist[r].received)[j])

\* The rows the loop emits when the whole text arrives as one chunk.
OneChunk(text) ==
  LET d == Drain(Accumulate(<<>>, text), 0)
      first == DisplayLines(d.lines)
      last == DisplayLines(Remainder(d.buffer, d.n))
  IN  first.rows \o last.rows

\* C2: once the stream has ended, a run whose chunk boundaries all fell right
\* after a newline has emitted the same rows, in the same order, as the loop
\* emits for the same text in a single chunk (so any two such splittings agree).
C2_ChunkingIndependent ==
  \A r \in Runs :
    (hist[r].outcome = "ok" /\ hist[r].splitLines = {})
      => hist[r].emitted = OneChunk(hist[r].received)

\* A stream of two emitted lines that arrived in two chunks, cut after a newline.
C2_Witness ==
  \E r \in Runs :
    /\ hist[r].outcome = "ok"
    /\ hist[r].splitLines = {}
    /\ hist[r].alignedCuts >= 1
    /\ Len(hist[r].emitted) >= 2

\* C3: at most one analysis run is in flight at any time.
C3_AtMostOneRun == Cardinality({r \in Runs : InFlight(r)}) <= 1

\* C4, the rows: every well-formed line decoded after a malformed line of the
\* same run has its row.
C4_LaterLinesEmitted ==
  \A r \in Runs :
    Streamed(r) =>
      \A j \in 1..Decoded(r) :
        (WellFormed(LineOf(r, j))
           /\ \E i \in 1..(j - 1) : Malformed(Segments(hist[r].received)[i]))
          => EmittedFor(r, j) # {}

\* C4, the step: a chunk, whatever its lines, leaves the run streaming, displays
\* no error and raises nothing: the run counts no error and the error box is
\* untouched.
C4_ChunkNeverAborts ==
  \A r \in Runs :
    (run[r].pc = "streaming" /\ hist'[r].received # hist[r].received)
      => /\ run'[r].pc = "streaming"
         /\ hist'[r].errs = hist[r].errs
         /\ hist'[r].outcome = hist[r].outcome
         /\ ui'.errorText = ui.errorText
         /\ ui'.errorVisible = ui.errorVisible

\* C4: a malformed line never aborts the stream, displays no error, and the
\* well-formed lines after it are still emitted.
C4_MalformedLineSkipped == [](C4_LaterLinesEmitted) /\ [][C4_ChunkNeverAborts]_vars

\* A malformed line, then a well-formed one whose row was emitted, no error shown.
C4_Witness ==
  \E r \in Runs :
    /\ Streamed(r)
    /\ hist[r].errs = 0
    /\ \E j \in 1..Decoded(r) :
         /\ EmittedFor(r, j) # {}
         /\ \E i \in 1..(j - 1) : Malformed(Segments(hist[r].received)[i])

\* C5: the step that handles a stream error (failing to open, or failing at a
\* read) reports the error once (the run's only report) and leaves every row of
\* the results table, and the run's emitted rows, as they were.
C5_StreamErrorKeepsRows ==
  [][\A r \in Runs :
       (hist[r].outcome # "streamError" /\ hist'[r].outcome = "streamError")
         => /\ ui'.tbody = ui.tbody
            /\ hist'[r].emitted = hist[r].emitted
            /\ hist'[r].errs = 1
            /\ hist[r].errs = 0
            /\ ui'.errorVisible
            /\ ui'.errorText = MsgAnalysisFailed]_vars

\* A stream error after a row was emitted: the row is still in the table.
C5_Witness ==
  \E r \in Runs :
    /\ hist[r].outcome = "streamError"
    /\ hist[r].errs = 1
    /\ hist[r].emitted # <<>>
    /\ \E k \in 1..Len(ui.tbody) : ui.tbody[k].line = hist[r].emitted[1].line
    /\ ui.errorText = MsgAnalysisFailed

\* C6: after a normal end of a stream whose text ends with a non-blank
\* remainder (no trailing newline), the remainder went through the decode step
\* exactly once: it has one row if it is well-formed and none otherwise, that row
\* carries its decoded item and is the last the run emitted, after the rows of
\* all newline-terminated lines.
C6_RemainderFlushed ==
  \A r \in Runs :
    LET segs == Segments(hist[r].received)
        n == Len(segs)
        last == Trim(segs[n])
        e == hist[r].emitted
    IN  (hist[r].outcome = "ok" /\ last # <<>>)
          => /\ Cardinality(EmittedFor(r, n)) = IF WellFormed(last) THEN 1 ELSE 0
             /\ WellFormed(last)
                  => /\ EmittedFor(r, n) = {Len(e)}
                     /\ e[Len(e)].item = ParseJSON(last).value
                     /\ \A k \in 1..(Len(e) - 1) : e[k].lineNo < n

\* A well-formed final line without newline was emitted after an earlier row.
C6_Witness ==
  \E r \in Runs :
    LET segs == Segments(hist[r].received)
    IN  /\ hist[r].outcome = "ok"
        /\ WellFormed(Trim(segs[Len(segs)]))
        /\ Len(hist[r].emitted) >= 2
        /\ hist[r].emitted[Len(hist[r].emitted)].lineNo = Len(segs)

\* C7 as stated: no row is emitted for a line that a chunk boundary fell inside.
C7_SplitLineRejected ==
  \A r \in Runs : \A k \in 1..Len(hist[r].emitted) :
    hist[r].emitted[k].lineNo \notin hist[r].splitLines

\* C7 amended: a line that a chunk boundary fell inside is buffered until its
\* newline (or the end of the stream) and then decoded whole: it has a row
\* exactly when the reassembled line is well-formed.
C7_SplitLineReassembled ==
  \A r \in Runs :
    Streamed(r) =>
      \A j \in hist[r].splitLines :
        j <= Decoded(r) => (EmittedFor(r, j) # {} <=> WellFormed(LineOf(r, j)))

\* A line split across chunks has its row.
C7_Witness ==
  \E r \in Runs : \E j \in hist[r].splitLines : EmittedFor(r, j) # {}

\* C8: a click with a file selected and neither a URL nor a manual location
\* reports the configuration error and does nothing else: no run starts, no API
\* call is counted, the loading state is not entered, the table is untouched.
C8_ConfigErrorBeforeAnyCall ==
  [][(selectedFile /\ HandleAnalyzeClick("", ""))
       => /\ ui'.errorText = MsgConfig
          /\ ui'.errorVisible
          /\ ui'.disabled = ui.disabled
          /\ ui'.spinner = ui.spinner
          /\ ui'.tbody = ui.tbody
          /\ run' = run
          /\ hist' = hist]_vars

\* The configuration error is on display and no run is in flight.
C8_Witness ==
  /\ selectedFile
  /\ ui.errorText = MsgConfig
  /\ ui.errorVisible
  /\ \A r \in Runs : ~InFlight(r)

\* C9 as stated: a run with a manual location issues no business-context request.
C9_ManualSkipsContext ==
  \A r \in Runs : run[r].manualLocation # "" => hist[r].genCalls = 0

\* C9 amended: a run issues the business-context request exactly when a website
\* URL was supplied, with or without a manual location; the step is skipped only
\* when there is no URL, and a manual location replaces the inferred one.
C9_ContextIffUrl ==
  \A r \in Runs :
    /\ InFlight(r) =>
         hist[r].genCalls = IF run[r].websiteUrl # "" THEN 1 ELSE 0
    /\ (run[r].pc \in {"reading", "opening", "streaming"}
          /\ run[r].manualLocation # "")
         => run[r].location = run[r].manualLocation

\* A run with a manual location and no URL is reading its file, no context call.
C9_Witness ==
  \E r \in Runs :
    /\ run[r].pc = "reading"
    /\ run[r].manualLocation # ""
    /\ run[r].websiteUrl = ""
    /\ hist[r].genCalls = 0

\* C10: every run that is in flight eventually ends with the loading state left
\* (the button enabled, the spinner hidden).
C10_LoadingEventuallyLeft ==
  \A r \in Runs :
    InFlight(r) ~> (run[r].pc = "done" /\ ~ui.disabled /\ ~ui.spinner)

\* A run has ended on the file-read error path with the button enabled again.
C10_Witness ==
  \E r \in Runs :
    /\ run[r].pc = "done"
    /\ hist[r].outcome = "readError"
    /\ ~ui.disabled
    /\ ~ui.spinner

====
